---------------------------- MODULE Spec2Model ----------------------------
(***************************************************************************)
(* Model of cpp/src/wrapper/knowhere/vec_index.cpp (zilliz::milvus::engine) *)
(*                                                                         *)
(*   - the binary codec        write_index / read_index / LoadVecIndex     *)
(*   - the index factory       GetVecIndexFactory (which types it knows)   *)
(*   - the parameter tuner     AutoGenParams                               *)
(*   - the parameter validator ParameterValidation                         *)
(*   - the device type mapper  ConvertToCpuIndexType / ConvertToGpuIndexType*)
(*                                                                         *)
(* Two specifications share the variables: Spec (the codec, a file on disk *)
(* that is written and read back) and SpecParams (the configuration        *)
(* functions, applied to a configuration drawn in the initial state).      *)
(***************************************************************************)
EXTENDS Integers, Sequences, FiniteSets, TLC

VARIABLES
    file,          \* the bytes of the file at `location`
    written,       \* what the last write_index call was given, and how it ended
    rres,          \* how the last read_index call ended
    cuda_version,  \* CUDA_VERSION of the build (selects GPU_MAX_NRPOBE)
    cfg,           \* the Config object handed to the parameter functions
    call,          \* the last parameter call: its arguments and the Config before it
    conv           \* the last device-type conversions

vars == <<file, written, rres, cuda_version, cfg, call, conv>>

codecVars == <<file, written, rres>>
paramVars == <<cuda_version, cfg, call, conv>>

(***************************************************************************)
(* IndexType.  Every enumerator the source names.                          *)
(***************************************************************************)
IndexTypes ==
    { "INVALID", "FAISS_IDMAP", "FAISS_IVFFLAT_CPU", "FAISS_IVFFLAT_GPU",
      "FAISS_IVFFLAT_MIX", "FAISS_IVFPQ_CPU", "FAISS_IVFPQ_GPU",
      "SPTAG_KDT_RNT_CPU", "FAISS_IVFSQ8_MIX", "FAISS_IVFSQ8_CPU",
      "FAISS_IVFSQ8_GPU", "NSG_MIX" }

\* The types for which the switch of GetVecIndexFactory builds an index;
\* for every other value it runs into `default: return nullptr`.
FactoryKnown ==
    { "FAISS_IDMAP", "FAISS_IVFFLAT_CPU", "FAISS_IVFFLAT_GPU",
      "FAISS_IVFFLAT_MIX", "FAISS_IVFPQ_CPU", "FAISS_IVFPQ_GPU",
      "SPTAG_KDT_RNT_CPU", "FAISS_IVFSQ8_MIX", "FAISS_IVFSQ8_CPU",
      "FAISS_IVFSQ8_GPU", "NSG_MIX" }

\* GetVecIndexFactory(type): the type of the handle made, or "null".
GetVecIndexFactory(type) ==
    IF type \in FactoryKnown THEN type ELSE "null"

(***************************************************************************)
(* Config: a map from key to value.  A key maps to <<>> when it is absent  *)
(* and to <<v>> when it holds v.                                           *)
(***************************************************************************)
Keys ==
    { "nlist", "nprobe", "nbits", "gpu_id", "metric_type", "dim",
      "knng", "search_length", "out_degree", "candidate_pool_size" }

NoValue == <<>>

contains(c, k) == c[k] # NoValue

get_with_default(c, k, d) == IF contains(c, k) THEN c[k][1] ELSE d

assign(c, k, v) == [c EXCEPT ![k] = <<v>>]

EmptyCfg == [k \in Keys |-> NoValue]

(***************************************************************************)
(* Single-precision arithmetic of AutoGenParams.  TYPICAL_COUNT is a float *)
(* and `size` a long, so size / TYPICAL_COUNT is a float division          *)
(* (round to nearest, ties to even, 24-bit significand) and the product    *)
(* with 16384 is an exact scaling by 2^14.  The quotient is computed by    *)
(* long division so that no intermediate exceeds 32 bits.                  *)
(***************************************************************************)
TYPICAL_COUNT == 1000000

F32_MANT_BITS == 24

RECURSIVE Pow2(_)
Pow2(n) == IF n = 0 THEN 1 ELSE 2 * Pow2(n - 1)

\* Least k >= 0 with a * 2^k >= b  (a >= 1).
RECURSIVE ShiftUp(_, _)
ShiftUp(a, b) == IF a >= b THEN 0 ELSE 1 + ShiftUp(2 * a, b)

\* Greatest j >= 0 with b * 2^j <= a  (a >= b).
RECURSIVE ShiftDown(_, _)
ShiftDown(a, b) == IF 2 * b > a THEN 0 ELSE 1 + ShiftDown(a, 2 * b)

\* n more quotient bits of r / d (r < d): <<the bits as a number, remainder>>.
RECURSIVE DivBits(_, _, _, _)
DivBits(r, d, n, acc) ==
    IF n = 0 THEN <<acc, r>>
    ELSE IF 2 * r >= d THEN DivBits(2 * r - d, d, n - 1, 2 * acc + 1)
         ELSE DivBits(2 * r, d, n - 1, 2 * acc)

\* float(a) / float(b) for 1 <= a < 2^24, 1 <= b < 2^24, as <<m, e>>:
\* the float m * 2^(-e) with 2^23 <= m < 2^24.
F32Div(a, b) ==
    LET up   == ShiftUp(a, b)
        down == IF a >= b THEN ShiftDown(a, b) ELSE 0
        num  == a * Pow2(up)                 \* b*2^down <= num < 2*b*2^down
        den  == b * Pow2(down)
        qr   == DivBits(num - den, den, F32_MANT_BITS - 1, 1)
        m0   == qr[1]
        r    == qr[2]
        roundUp == (2 * r > den) \/ (2 * r = den /\ m0 % 2 = 1)
        m1   == IF roundUp THEN m0 + 1 ELSE m0
        e0   == (F32_MANT_BITS - 1) + up - down
    IN  IF m1 = Pow2(F32_MANT_BITS) THEN <<Pow2(F32_MANT_BITS - 1), e0 - 1>>
        ELSE <<m1, e0>>

\* int(f * 2^s) for the float f = <<m, e>>: truncation of m * 2^(s - e).
F32ScaleToInt(f, s) ==
    LET d == f[2] - s
    IN  IF d <= 0 THEN f[1] * Pow2(0 - d)
        ELSE IF d >= F32_MANT_BITS THEN 0
        ELSE f[1] \div Pow2(d)

\* int(size / TYPICAL_COUNT)
RowsOverTypical(size) ==
    IF size = 0 THEN 0 ELSE F32ScaleToInt(F32Div(size, TYPICAL_COUNT), 0)

\* int(size / TYPICAL_COUNT * 16384)
BaselineNlist(size) ==
    IF size = 0 THEN 0 ELSE F32ScaleToInt(F32Div(size, TYPICAL_COUNT), 14)

\* size <= TYPICAL_COUNT / 16384 + 1.  The right-hand side is the float
\* 62.03515625 exactly, so for an integer size the test is size <= 61 + 1.
IsTinyRowCount(size) == size <= (TYPICAL_COUNT \div 16384) + 1

\* Faulty variant of GraphNlist: the baseline rule's factor, 16384, in the graph branch.
GraphNlist_Baseline(size) == (size * 256) \div 15625

\* int(size / 1000000.0 * 8192), in double precision: below 2^24 rows the
\* rounding of the quotient never reaches an integer (the exact value
\* size * 128 / 15625 stays 1/15625 away from one), so it is the floor.
GraphNlist(size) == (size * 128) \div 15625

\* round(dim / 128.0), halves away from zero, then capped:
\* scale_factor = scale_factor >= 4 ? 4 : scale_factor
ScaleFactor(dim) ==
    LET r == IF dim >= 0 THEN (2 * dim + 128) \div 256
             ELSE 0 - ((2 * (0 - dim) + 128) \div 256)
    IN  IF r >= 4 THEN 4 ELSE r


(***************************************************************************)
(* AutoGenParams(type, size, cfg).  The result is the Config it leaves and *)
(* how the call ended: cfg["dim"].as<int>() on a Config without "dim"      *)
(* raises (the key is looked up, not created), after the baseline rule and *)
(* the two defaults have already been stored.                              *)
(***************************************************************************)
\* Faulty variant of BaselineRule: the `* nlist == 0` test dropped, so that nlist is
\* recomputed for every row count above the tiny-dataset threshold.
BaselineRule_Always(size, c) ==
    IF IsTinyRowCount(size) THEN assign(c, "nlist", 1)
    ELSE assign(c, "nlist", BaselineNlist(size))

\* Lines 231-238: the baseline nlist rule.
BaselineRule(size, c) ==
    LET nlist == get_with_default(c, "nlist", 0)
    IN  IF IsTinyRowCount(size) THEN assign(c, "nlist", 1)
        ELSE IF RowsOverTypical(size) * nlist = 0
             THEN assign(c, "nlist", BaselineNlist(size))
             ELSE c

\* if (!cfg.contains(k)) { cfg[k] = v; }
FillIfAbsent(c, k, v) == IF contains(c, k) THEN c ELSE assign(c, k, v)

\* Lines 240-241.
CommonDefaults(c) ==
    FillIfAbsent(FillIfAbsent(c, "gpu_id", 0), "metric_type", "L2")

\* Lines 248-259: case IndexType::NSG_MIX, with "dim" present.
GraphParams(size, c) ==
    LET scale_factor == ScaleFactor(c["dim"][1])
        c1 == assign(c, "nlist", GraphNlist(size))
        c2 == FillIfAbsent(c1, "nprobe", 6 + 10 * scale_factor)
        c3 == FillIfAbsent(c2, "knng", 100 + 100 * scale_factor)
        c4 == FillIfAbsent(c3, "search_length", 40 + 5 * scale_factor)
        c5 == FillIfAbsent(c4, "out_degree", 50 + 5 * scale_factor)
    IN  FillIfAbsent(c5, "candidate_pool_size", 200 + 100 * scale_factor)

AutoGenParams(type, size, c) ==
    LET c1 == CommonDefaults(BaselineRule(size, c))
    IN  CASE type = "FAISS_IVFSQ8_MIX" ->
                [cfg |-> FillIfAbsent(c1, "nbits", 8), outcome |-> "returned"]
          [] type = "NSG_MIX" ->
                IF contains(c1, "dim")
                THEN [cfg |-> GraphParams(size, c1), outcome |-> "returned"]
                ELSE [cfg |-> c1, outcome |-> "threw"]
          [] OTHER ->
                [cfg |-> c1, outcome |-> "returned"]

(***************************************************************************)
(* ParameterValidation(type, cfg).                                         *)
(***************************************************************************)
\* #if CUDA_VERSION > 9000 ... 2048 ... #else ... 1024
GPU_MAX_NRPOBE(cuda) == IF cuda > 9000 THEN 2048 ELSE 1024

GpuClustered == { "FAISS_IVFSQ8_GPU", "FAISS_IVFFLAT_GPU", "FAISS_IVFPQ_GPU" }

\* Faulty variant of ParameterValidation: `case IndexType::FAISS_IVFPQ_GPU` missing.
ParameterValidation_NoPQ(type, cuda, c) ==
    IF type \in { "FAISS_IVFSQ8_GPU", "FAISS_IVFFLAT_GPU" }
          /\ get_with_default(c, "nprobe", 0) > GPU_MAX_NRPOBE(cuda)
    THEN assign(c, "nprobe", GPU_MAX_NRPOBE(cuda))
    ELSE c

ParameterValidation(type, cuda, c) ==
    IF type \in GpuClustered
    THEN IF get_with_default(c, "nprobe", 0) # 0
         THEN LET nprobe == c["nprobe"][1]
              IN  IF nprobe > GPU_MAX_NRPOBE(cuda)
                  THEN assign(c, "nprobe", GPU_MAX_NRPOBE(cuda))
                  ELSE c
         ELSE c
    ELSE c

(***************************************************************************)
(* The device type mapper.                                                 *)
(***************************************************************************)
\* Faulty variant of ConvertToCpuIndexType: the two MIX cases missing.
ConvertToCpuIndexType_NoMix(type) ==
    CASE type = "FAISS_IVFFLAT_GPU" -> "FAISS_IVFFLAT_CPU"
      [] type = "FAISS_IVFSQ8_GPU" -> "FAISS_IVFSQ8_CPU"
      [] OTHER -> type

ConvertToCpuIndexType(type) ==
    CASE type \in { "FAISS_IVFFLAT_GPU", "FAISS_IVFFLAT_MIX" } -> "FAISS_IVFFLAT_CPU"
      [] type \in { "FAISS_IVFSQ8_GPU", "FAISS_IVFSQ8_MIX" } -> "FAISS_IVFSQ8_CPU"
      [] OTHER -> type

ConvertToGpuIndexType(type) ==
    CASE type \in { "FAISS_IVFFLAT_MIX", "FAISS_IVFFLAT_CPU" } -> "FAISS_IVFFLAT_GPU"
      [] type \in { "FAISS_IVFSQ8_MIX", "FAISS_IVFSQ8_CPU" } -> "FAISS_IVFSQ8_GPU"
      [] OTHER -> type

(***************************************************************************)
(* The binary codec.  A file is a sequence of bytes (0..255).              *)
(***************************************************************************)
\* sizeof(IndexType): the width of the tag write_index and read_index move.
SIZEOF_INDEX_TYPE == 4

\* sizeof(size_t) and sizeof(int64_t): the width of a length field.
SIZEOF_LENGTH == 8

\* The value of each enumerator, in the order of the enum's declaration.
IndexTypeValue(type) ==
    CASE type = "INVALID"           -> 0
      [] type = "FAISS_IDMAP"       -> 1
      [] type = "FAISS_IVFFLAT_CPU" -> 2
      [] type = "FAISS_IVFFLAT_GPU" -> 3
      [] type = "FAISS_IVFFLAT_MIX" -> 4
      [] type = "FAISS_IVFPQ_CPU"   -> 5
      [] type = "FAISS_IVFPQ_GPU"   -> 6
      [] type = "SPTAG_KDT_RNT_CPU" -> 7
      [] type = "FAISS_IVFSQ8_MIX"  -> 8
      [] type = "FAISS_IVFSQ8_CPU"  -> 9
      [] type = "FAISS_IVFSQ8_GPU"  -> 10
      [] type = "NSG_MIX"           -> 11

\* The enumerator with value v; a value no enumerator has is a type the
\* factory's switch sends to `default`.
IndexTypeOfValue(v) ==
    IF \E t \in IndexTypes : IndexTypeValue(t) = v
    THEN CHOOSE t \in IndexTypes : IndexTypeValue(t) = v
    ELSE "NOT_AN_ENUMERATOR"

\* The n bytes of v in memory (little-endian), as writer(&v, n) emits them.
RECURSIVE EncodeLE(_, _)
EncodeLE(v, n) ==
    IF n = 0 THEN <<>> ELSE <<v % 256>> \o EncodeLE(v \div 256, n - 1)

\* The value of the bytes of an integer object, as reader(&v, n) leaves it.
RECURSIVE DecodeLE(_)
DecodeLE(bytes) ==
    IF bytes = <<>> THEN 0 ELSE bytes[1] + 256 * DecodeLE(Tail(bytes))

\* One segment of a BinarySet: a name and a Binary {data, size}.
Segment(name, data, size) == [name |-> name, data |-> data, size |-> size]

\* Faulty variant of SegmentBytes: the name written with its terminating NUL
\* (meta_length = length() + 1).
SegmentBytes_WithTerminator(seg) ==
    EncodeLE(Len(seg.name) + 1, SIZEOF_LENGTH) \o seg.name \o <<0>>
        \o EncodeLE(seg.size, SIZEOF_LENGTH) \o SubSeq(seg.data, 1, seg.size)

\* Lines 202-210: the four writes for one entry of binary_map_.
SegmentBytes(seg) ==
    EncodeLE(Len(seg.name), SIZEOF_LENGTH) \o seg.name
        \o EncodeLE(seg.size, SIZEOF_LENGTH) \o SubSeq(seg.data, 1, seg.size)

RECURSIVE SegmentsBytes(_)
SegmentsBytes(binset) ==
    IF binset = <<>> THEN <<>>
    ELSE SegmentBytes(Head(binset)) \o SegmentsBytes(Tail(binset))

\* A file in the codec's format whose tag has the value v.
TaggedBytes(v, binset) ==
    EncodeLE(v, SIZEOF_INDEX_TYPE) \o SegmentsBytes(binset)

\* Lines 199-211: everything write_index hands to the writer.
FileBytes(type, binset) == TaggedBytes(IndexTypeValue(type), binset)

\* The message matched by write_index: "No space left on device".
Indicator ==
    << "N","o"," ","s","p","a","c","e"," ","l","e","f","t"," ",
       "o","n"," ","d","e","v","i","c","e" >>

\* estring.find(needle) != estring.npos
Found(estring, needle) ==
    \E i \in 1..(Len(estring) - Len(needle) + 1) :
        SubSeq(estring, i, i + Len(needle) - 1) = needle

\* Faulty variant of CatchClauses: the std::exception clause first, so that it also
\* takes every KnowhereException.
CatchClauses_StdFirst(kind, what) ==
    IF Found(what, Indicator) THEN "KNOWHERE_NO_SPACE" ELSE "KNOWHERE_ERROR"

\* Lines 212-224: the catch clauses, in their order.  `kind` is the dynamic
\* type of the exception: "knowhere" (KnowhereException) or "std" (any
\* other std::exception); `what` is its message.
CatchClauses(kind, what) ==
    IF kind = "knowhere" THEN "KNOWHERE_UNEXPECTED_ERROR"
    ELSE IF Found(what, Indicator) THEN "KNOWHERE_NO_SPACE"
    ELSE "KNOWHERE_ERROR"

\* The bytes that reach the file when the device takes `room` more bytes:
\* fstream reports a failed write in its state bits only (no exception mask
\* is set), which write_index never looks at.
Stored(bytes, room) == SubSeq(bytes, 1, IF room < Len(bytes) THEN room ELSE Len(bytes))

\* write_index(index, location) for a handle {type, binset}, an exception
\* `fault` raised by index->Serialize() / index->GetType() (kind "none": no
\* exception) and a device with `room` bytes free: the code returned and
\* the file left at `location`.
\* FileIOWriter::operator() is declared to return size_t and has no return
\* statement, so a call of it need not come back (`returns` FALSE); the
\* file then holds whatever part of the bytes was flushed.
write_index(index, fault, room, returns, old) ==
    IF fault.kind # "none"
    THEN [code |-> CatchClauses(fault.kind, fault.what), file |-> old]
    ELSE [code |-> IF returns THEN "KNOWHERE_SUCCESS" ELSE "no_return",
          file |-> Stored(FileBytes(index.type, index.binset), room)]

(***************************************************************************)
(* read_index.  A read that crosses end-of-file stores the bytes there are *)
(* and leaves the rest of the buffer as it was: uninitialized.  From then  *)
(* on the stream is in its failed state, so every later read and seekg is  *)
(* a no-op.  An uninitialized byte of a name or of data is Indet; an       *)
(* uninitialized length is any of IndetLengths, or too large to allocate   *)
(* (Huge: `new` throws std::bad_alloc).                                    *)
(***************************************************************************)
Indet == -1

Huge == -2

MaxIndetLen == 1

IndetLengths == 0..MaxIndetLen

Min(a, b) == IF a < b THEN a ELSE b

Max(a, b) == IF a > b THEN a ELSE b

\* reader(buf, n) with the stream at rp: <<the buffer afterwards, stream ok>>
\* for a buffer whose bytes were `before`.
ReadInto(f, rp, ok, n, before) ==
    LET got == IF ok THEN Max(0, Min(n, Len(f) - rp)) ELSE 0
    IN  << SubSeq(f, rp + 1, rp + got) \o SubSeq(before, got + 1, n),
           ok /\ got = n >>

Uninit(n) == [i \in 1..n |-> Indet]

\* reader(&len, sizeof(len)) for an uninitialized size_t: the values it may
\* hold afterwards, each with the stream state.
ReadLength(f, rp, ok) ==
    LET r == ReadInto(f, rp, ok, SIZEOF_LENGTH, Uninit(SIZEOF_LENGTH))
    IN  IF r[2] THEN { [val |-> DecodeLE(r[1]), ok |-> TRUE] }
        ELSE { [val |-> v, ok |-> FALSE] : v \in IndetLengths \cup {Huge} }

\* BinarySet::Append(name, data, size): names are unique within a set, so
\* a name already there gets the new Binary; otherwise the entry is added
\* at the end.
BinarySetAppend(binset, seg) ==
    IF \E i \in 1..Len(binset) : binset[i].name = seg.name
    THEN [i \in 1..Len(binset) |->
             IF binset[i].name = seg.name THEN seg ELSE binset[i]]
    ELSE Append(binset, seg)

\* Lines 165-189: the loop, from cursor rp.  The set of ways it can end:
\* "eof" with the BinarySet built, or "bad_alloc".
RECURSIVE ReadLoop(_, _, _, _)
ReadLoop(f, rp, ok, acc) ==
    IF ~(rp < Len(f)) THEN { [status |-> "eof", binset |-> acc] }
    ELSE UNION {
        IF ml.val = Huge THEN { [status |-> "bad_alloc", binset |-> acc] }
        ELSE
          LET rp1  == rp + SIZEOF_LENGTH
              meta == ReadInto(f, rp1, ml.ok, ml.val, Uninit(ml.val))
              rp2  == rp1 + ml.val
          IN  UNION {
                IF bl.val = Huge THEN { [status |-> "bad_alloc", binset |-> acc] }
                ELSE
                  LET rp3 == rp2 + SIZEOF_LENGTH
                      bin == ReadInto(f, rp3, bl.ok, bl.val, Uninit(bl.val))
                      rp4 == rp3 + bl.val
                  IN  ReadLoop(f, rp4, bin[2],
                               BinarySetAppend(acc, Segment(meta[1], bin[1], bl.val)))
                : bl \in ReadLength(f, rp2, meta[2]) }
        : ml \in ReadLength(f, rp, ok) }

\* Lines 144-148: LoadVecIndex.  index->Load(...) is called on whatever the
\* factory returned; through a null pointer the call is undefined.
LoadVecIndex(type, binset) ==
    IF GetVecIndexFactory(type) = "null"
    THEN [status |-> "load_on_null", type |-> type, binset |-> binset]
    ELSE [status |-> "loaded", type |-> GetVecIndexFactory(type), binset |-> binset]

\* read_index(location): the set of ways the call can end for file f.
\* FileIOReader::operator() has no return statement either: "no_return".
read_index(f) ==
    IF Len(f) <= 0
    THEN { [status |-> "nullptr", type |-> "INVALID", binset |-> <<>>] }
    ELSE
      LET tag == ReadInto(f, 0, TRUE, SIZEOF_INDEX_TYPE,
                          EncodeLE(IndexTypeValue("INVALID"), SIZEOF_INDEX_TYPE))
          current_type == IndexTypeOfValue(DecodeLE(tag[1]))
      IN  { IF o.status = "eof" THEN LoadVecIndex(current_type, o.binset)
            ELSE [status |-> "bad_alloc", type |-> current_type, binset |-> o.binset]
            : o \in ReadLoop(f, SIZEOF_INDEX_TYPE, tag[2], <<>>) }
          \cup { [status |-> "no_return", type |-> "INVALID", binset |-> <<>>] }

(***************************************************************************)
(* The inputs of the codec.                                                *)
(***************************************************************************)
MaxSegs == 2

\* Segment names ("", "a", "ba") and segment contents (none, two bytes).
Names == { <<>>, <<97>>, <<98, 97>> }

Datas == { <<>>, <<0, 255>> }

Segments == { Segment(n, d, Len(d)) : n \in Names, d \in Datas }

\* What Serialize() can return: segments with unique names.
BinarySets ==
    { b \in UNION { [1..n -> Segments] : n \in 0..MaxSegs } :
        \A i, j \in 1..Len(b) : b[i].name = b[j].name => i = j }

\* The handles write_index is given: made by the factory.
Handles == [type : FactoryKnown, binset : BinarySets]

\* Messages carrying the indicator ...
WithIndicator ==
    { Indicator,
      <<"w","r","i","t","e",":"," ">> \o Indicator \o <<"!">> }

\* ... and messages that do not: empty, unrelated, the indicator cut short,
\* and the indicator in lower case.
WithoutIndicator ==
    { <<>>,
      <<"b","a","d"," ","i","n","d","e","x">>,
      SubSeq(Indicator, 1, Len(Indicator) - 1),
      <<"n">> \o Tail(Indicator) }

NoFault == [kind |-> "none", what |-> <<>>]

Faults ==
    {NoFault} \cup [kind : {"knowhere", "std"}, what : WithIndicator \cup WithoutIndicator]

\* Tag values of files that come from elsewhere: every enumerator's value
\* and one more.
TagValues == 0..Cardinality(IndexTypes)

(***************************************************************************)
(* The inputs of the parameter functions.                                  *)
(***************************************************************************)
\* Row counts: around the tiny-dataset threshold (62), around the first
\* row count for which the graph formula leaves zero (122), the scenario's
\* 500, a row count whose single-precision quotient rounds up to an integer
\* (128479), and around TYPICAL_COUNT.
RowCounts ==
    { 0, 62, 63, 122, 123, 500, 128479, 999999, 1000000, 2500000 }

\* The five keys the graph branch fills when absent: none supplied, all
\* supplied, or exactly one supplied.
GraphKeys == { "nprobe", "knng", "search_length", "out_degree", "candidate_pool_size" }

SuppliedGraphKeys == { {}, GraphKeys } \cup { {k} : k \in GraphKeys }

\* The three keys filled for other families, likewise.
CommonKeys == { "gpu_id", "metric_type", "nbits" }

SuppliedCommonKeys == { {}, CommonKeys } \cup { {k} : k \in CommonKeys }

\* The value a caller supplies for a key other than nlist and dim.
Supplied(k) ==
    CASE k = "gpu_id"      -> <<1>>
      [] k = "metric_type" -> <<"IP">>
      [] k = "nbits"       -> <<16>>
      [] OTHER             -> <<7>>

\* Configurations for the tuner: nlist absent, zero or non-zero; dim absent
\* or on either side of a rounding step of dim / 128; and the supplied keys.
TunerConfigs ==
    { [k \in Keys |->
          CASE k = "nlist" -> nl
            [] k = "dim"   -> d
            [] OTHER       -> IF k \in gk \cup ck THEN Supplied(k) ELSE NoValue ] :
        nl \in { NoValue, <<0>>, <<100>> },
        d  \in { NoValue, <<64>>, <<191>>, <<192>>, <<512>> },
        ck \in SuppliedCommonKeys,
        gk \in SuppliedGraphKeys }

\* Configurations for the validator: nprobe around both ceilings.
ValidatorConfigs ==
    { [k \in Keys |->
          CASE k = "nprobe" -> np
            [] k = "nlist"  -> nl
            [] OTHER        -> NoValue ] :
        np \in { NoValue, <<0>>, <<-1>>, <<1>>, <<1024>>, <<1025>>,
                 <<2048>>, <<2049>>, <<100000>> },
        nl \in { NoValue, <<100>> } }

Configs == TunerConfigs \cup ValidatorConfigs

\* CUDA_VERSION of the two kinds of build.
CudaVersions == { 9000, 10000 }

NoCall == [op |-> "none", type |-> "INVALID", size |-> 0, pre |-> EmptyCfg,
           outcome |-> "none"]

NoConv == [done |-> FALSE, from |-> "INVALID", cpu |-> "INVALID",
           gpu |-> "INVALID", cpu_of_gpu |-> "INVALID", gpu_of_cpu |-> "INVALID"]

NoWrite == [status |-> "none", type |-> "INVALID", binset |-> <<>>,
            fault |-> NoFault, complete |-> FALSE]

NoRead == [status |-> "none", type |-> "INVALID", binset |-> <<>>]

InitParams ==
    /\ file = <<>>
    /\ written = NoWrite
    /\ rres = NoRead
    /\ cuda_version \in CudaVersions
    /\ cfg \in Configs
    /\ call = NoCall
    /\ conv = NoConv

\* A caller runs the tuner once on its configuration.
DoAutoGenParams ==
    /\ call.op = "none"
    /\ ~conv.done
    /\ \E type \in IndexTypes, size \in RowCounts :
          LET r == AutoGenParams(type, size, cfg)
          IN  /\ cfg' = r.cfg
              /\ call' = [op |-> "AutoGenParams", type |-> type, size |-> size,
                          pre |-> cfg, outcome |-> r.outcome]
    /\ UNCHANGED <<cuda_version, conv>>
    /\ UNCHANGED codecVars

\* A caller runs the validator once on its configuration.
DoParameterValidation ==
    /\ call.op = "none"
    /\ ~conv.done
    /\ \E type \in IndexTypes :
          /\ cfg' = ParameterValidation(type, cuda_version, cfg)
          /\ call' = [op |-> "ParameterValidation", type |-> type, size |-> 0,
                      pre |-> cfg, outcome |-> "returned"]
    /\ UNCHANGED <<cuda_version, conv>>
    /\ UNCHANGED codecVars

\* A caller maps an index type to its CPU and GPU variants, and each
\* variant on to the other device.
DoConvert ==
    /\ call.op = "none"
    /\ ~conv.done
    /\ \E type \in IndexTypes :
          LET c == ConvertToCpuIndexType(type)
              g == ConvertToGpuIndexType(type)
          IN  conv' = [done |-> TRUE, from |-> type, cpu |-> c, gpu |-> g,
                       cpu_of_gpu |-> ConvertToCpuIndexType(g),
                       gpu_of_cpu |-> ConvertToGpuIndexType(c)]
    /\ UNCHANGED <<cuda_version, cfg, call>>
    /\ UNCHANGED codecVars

ParamsIdle ==
    /\ cuda_version = 9000
    /\ cfg = EmptyCfg
    /\ call = NoCall
    /\ conv = NoConv

Init ==
    /\ file = <<>>
    /\ written = NoWrite
    /\ rres = NoRead
    /\ ParamsIdle

\* The device has room for any part of the file, or for all of it; the
\* writer is reached only when Serialize() and GetType() raised nothing.
WriterRooms(index, fault) ==
    IF fault.kind = "none" THEN 0..Len(FileBytes(index.type, index.binset)) ELSE {0}

WriterReturns(fault) == IF fault.kind = "none" THEN BOOLEAN ELSE {TRUE}

\* A caller persists an index.
DoWriteIndex ==
    /\ written.status = "none"
    /\ rres.status = "none"
    /\ \E index \in Handles, fault \in Faults :
         \E room \in WriterRooms(index, fault), returns \in WriterReturns(fault) :
            LET w == write_index(index, fault, room, returns, file)
            IN  /\ file' = w.file
                /\ written' = [status |-> w.code, type |-> index.type,
                               binset |-> index.binset, fault |-> fault,
                               complete |-> w.file = FileBytes(index.type, index.binset)]
    /\ UNCHANGED rres
    /\ UNCHANGED paramVars

\* A file in the codec's format, written elsewhere, is put at `location`.
DoPlaceFile ==
    /\ written.status = "none"
    /\ rres.status = "none"
    /\ \E v \in TagValues, binset \in BinarySets :
          /\ file' = TaggedBytes(v, binset)
          /\ written' = [status |-> "external", type |-> IndexTypeOfValue(v),
                         binset |-> binset, fault |-> NoFault, complete |-> TRUE]
    /\ UNCHANGED rres
    /\ UNCHANGED paramVars

\* A caller loads the index at `location`.  (A caller whose write_index
\* never came back makes no further call; the files it can leave are the
\* files of a device that ran out of room.)
DoReadIndex ==
    /\ rres.status = "none"
    /\ written.status # "no_return"
    /\ \E o \in read_index(file) : rres' = o
    /\ UNCHANGED <<file, written>>
    /\ UNCHANGED paramVars

Next == DoWriteIndex \/ DoPlaceFile \/ DoReadIndex

Spec == Init /\ [][Next]_vars

NextParams == DoAutoGenParams \/ DoParameterValidation \/ DoConvert

SpecParams == InitParams /\ [][NextParams]_vars


(***************************************************************************)
(* Properties of the codec (specification Spec).                           *)
(***************************************************************************)
WriteReturned == written.status \notin { "none", "external", "no_return" }

ReadReturned == rres.status \notin { "none", "no_return" }

LoadInvoked == rres.status \in { "loaded", "load_on_null" }

\* C1: round trip.  When write_index has written every byte of a handle of
\* family F that serializes to S and returned success, a read_index of that
\* file that returns has invoked Load on a handle of family F with exactly
\* the segments of S: the same names in the same order, with the same
\* lengths and the same bytes.
C1_RoundTrip ==
    (written.status = "KNOWHERE_SUCCESS" /\ written.complete /\ ReadReturned)
        => /\ rres.status = "loaded"
           /\ rres.type = written.type
           /\ rres.binset = written.binset

\* A round trip of two segments, the first named "ba" with no data, the
\* second with the empty name and two bytes of data.
C1_RoundTripWitness ==
    /\ written.status = "KNOWHERE_SUCCESS"
    /\ written.complete
    /\ written.type = "NSG_MIX"
    /\ written.binset = << Segment(<<98, 97>>, <<>>, 0), Segment(<<>>, <<0, 255>>, 2) >>
    /\ rres.status = "loaded"
    /\ rres.binset = written.binset

\* Whether every declared length of file f, from cursor rp on, stays
\* within the file.
RECURSIVE LengthsFit(_, _)
LengthsFit(f, rp) ==
    \/ rp = Len(f)
    \/ /\ rp + SIZEOF_LENGTH <= Len(f)
       /\ LET ml  == DecodeLE(SubSeq(f, rp + 1, rp + SIZEOF_LENGTH))
              rp2 == rp + SIZEOF_LENGTH + ml
          IN  /\ rp2 + SIZEOF_LENGTH <= Len(f)
              /\ LET bl == DecodeLE(SubSeq(f, rp2 + 1, rp2 + SIZEOF_LENGTH))
                 IN  /\ rp2 + SIZEOF_LENGTH + bl <= Len(f)
                     /\ LengthsFit(f, rp2 + SIZEOF_LENGTH + bl)

Truncated(f) == Len(f) >= SIZEOF_INDEX_TYPE /\ ~LengthsFit(f, SIZEOF_INDEX_TYPE)

\* C2: on a file in which a declared name length or data length passes
\* end-of-file, read_index fails (CorruptFile): it never invokes Load.
C2_TruncatedFileNotLoaded ==
    (ReadReturned /\ Truncated(file)) => ~LoadInvoked

\* The value of the tag of file f (four bytes or more).
TagOf(f) == DecodeLE(SubSeq(f, 1, SIZEOF_INDEX_TYPE))

\* C3: on a file whose tag is not a family the factory recognizes,
\* read_index fails (UnknownFamily): Load is never invoked on the null
\* handle the factory returned.
C3_UnknownFamilyNotLoaded ==
    (ReadReturned /\ Len(file) >= SIZEOF_INDEX_TYPE
        /\ TagOf(file) \notin { IndexTypeValue(t) : t \in FactoryKnown })
        => rres.status # "load_on_null"

\* C4 as amended: a std::exception that is no KnowhereException yields
\* NoSpace when its message contains the indicator and SerializationError
\* otherwise; a KnowhereException yields Unexpected whatever its message;
\* and success is returned only when no exception was raised.
C4_ErrorClassification ==
    WriteReturned =>
        /\ (written.fault.kind = "std" /\ written.fault.what \in WithIndicator)
              => written.status = "KNOWHERE_NO_SPACE"
        /\ (written.fault.kind = "std" /\ written.fault.what \in WithoutIndicator)
              => written.status = "KNOWHERE_ERROR"
        /\ written.fault.kind = "knowhere"
              => written.status = "KNOWHERE_UNEXPECTED_ERROR"
        /\ written.status = "KNOWHERE_SUCCESS" => written.fault.kind = "none"

\* A generic exception whose message holds the indicator between other
\* text, reported as NoSpace.
C4_NoSpaceWitness ==
    /\ written.fault.kind = "std"
    /\ written.fault.what = <<"w","r","i","t","e",":"," ">> \o Indicator \o <<"!">>
    /\ written.status = "KNOWHERE_NO_SPACE"

\* C4 as claimed: an exception of either kind whose message contains the
\* indicator yields NoSpace; any other generic exception SerializationError;
\* a backend fault without the indicator Unexpected; success only when no
\* exception was raised.
C4_IndicatorAlwaysNoSpace ==
    WriteReturned =>
        /\ (written.fault.kind # "none" /\ written.fault.what \in WithIndicator)
              => written.status = "KNOWHERE_NO_SPACE"
        /\ (written.fault.kind = "std" /\ written.fault.what \in WithoutIndicator)
              => written.status = "KNOWHERE_ERROR"
        /\ (written.fault.kind = "knowhere" /\ written.fault.what \in WithoutIndicator)
              => written.status = "KNOWHERE_UNEXPECTED_ERROR"
        /\ written.status = "KNOWHERE_SUCCESS" => written.fault.kind = "none"

(***************************************************************************)
(* Properties of the parameter functions (specification SpecParams).       *)
(***************************************************************************)
Tuned == call.op = "AutoGenParams" /\ call.outcome = "returned"

\* int(size / TYPICAL_COUNT * 16384) for the row counts of RowCounts between
\* the tiny-dataset threshold and TYPICAL_COUNT, in single precision.
ReferenceNlist ==
    (63 :> 1) @@ (122 :> 1) @@ (123 :> 2) @@ (500 :> 8)
        @@ (128479 :> 2105) @@ (999999 :> 16383)

\* C5: for every family and every row count r <= 62, nlist is 1 after
\* AutoGenParams has returned, whatever nlist the caller supplied.
C5_TinyRowCountNlistOne ==
    (Tuned /\ call.size <= 62) => cfg["nlist"] = <<1>>

\* C6: for every family and every row count r > 62 with no nlist supplied,
\* the nlist left by AutoGenParams is at least 1.
C6_AutoNlistNonZero ==
    (Tuned /\ call.size > 62 /\ call.pre["nlist"] = NoValue)
        => (cfg["nlist"] # NoValue /\ cfg["nlist"][1] >= 1)

\* The keys other than nlist that a caller can supply and the tuner fills.
FilledKeys ==
    { "gpu_id", "metric_type", "nbits", "nprobe", "knng", "search_length",
      "out_degree", "candidate_pool_size" }

SuppliedKept ==
    \A k \in FilledKeys : call.pre[k] # NoValue => cfg[k] = call.pre[k]

SuppliedNonZeroNlist == call.pre["nlist"] \notin { NoValue, <<0>> }

\* C7 as amended: AutoGenParams never overwrites a supplied gpu_id,
\* metric_type, nbits, nprobe, knng, search_length, out_degree or
\* candidate_pool_size, for any family and row count; a supplied non-zero
\* nlist is unchanged for every non-graph family and every row count
\* r >= 1,000,000; for 62 < r < 1,000,000 it is replaced by
\* int(r / 1,000,000 * 16384).
C7_FillIfAbsent ==
    call.op = "AutoGenParams" =>
        /\ SuppliedKept
        /\ (call.type # "NSG_MIX" /\ call.size >= 1000000 /\ SuppliedNonZeroNlist)
              => cfg["nlist"] = call.pre["nlist"]
        /\ (call.type # "NSG_MIX" /\ call.size > 62 /\ call.size < 1000000)
              => cfg["nlist"] = <<ReferenceNlist[call.size]>>

\* A non-graph family at 2,500,000 rows with nlist = 100 and every other
\* key supplied: all kept.
C7_KeptWitness ==
    /\ call.op = "AutoGenParams"
    /\ call.type = "FAISS_IVFSQ8_MIX"
    /\ call.size = 2500000
    /\ call.pre["nlist"] = <<100>>
    /\ \A k \in FilledKeys : call.pre[k] # NoValue
    /\ cfg = call.pre

\* C7 as claimed: as above, but a supplied non-zero nlist is unchanged for
\* every non-graph family and every row count r > 62.
C7_NlistKeptAboveThreshold ==
    call.op = "AutoGenParams" =>
        /\ SuppliedKept
        /\ (call.type # "NSG_MIX" /\ call.size > 62 /\ SuppliedNonZeroNlist)
              => cfg["nlist"] = call.pre["nlist"]

\* The ceiling of the build: 2048 for CUDA above 9.0, else 1024.
Ceiling == IF cuda_version = 10000 THEN 2048 ELSE 1024

\* C8: for the three GPU clustered families ParameterValidation leaves
\* nprobe at the ceiling when it was above it and unchanged otherwise
\* (0 and absent included); for every other family the configuration is
\* unchanged; no key other than nprobe is ever modified.
C8_ValidatorClamp ==
    call.op = "ParameterValidation" =>
        /\ \A k \in Keys \ {"nprobe"} : cfg[k] = call.pre[k]
        /\ IF call.type \in { "FAISS_IVFFLAT_GPU", "FAISS_IVFSQ8_GPU", "FAISS_IVFPQ_GPU" }
              /\ call.pre["nprobe"] # NoValue
              /\ call.pre["nprobe"][1] > Ceiling
           THEN cfg["nprobe"] = <<Ceiling>>
           ELSE cfg["nprobe"] = call.pre["nprobe"]

\* The product-quantized GPU family with nprobe = 2049 on the build whose
\* ceiling is 2048: clamped.
C8_ClampWitness ==
    /\ call.op = "ParameterValidation"
    /\ call.type = "FAISS_IVFPQ_GPU"
    /\ cuda_version = 10000
    /\ call.pre["nprobe"] = <<2049>>
    /\ cfg["nprobe"] = <<2048>>

FlatOrQuantized ==
    { "FAISS_IVFFLAT_CPU", "FAISS_IVFFLAT_GPU", "FAISS_IVFFLAT_MIX",
      "FAISS_IVFSQ8_CPU", "FAISS_IVFSQ8_GPU", "FAISS_IVFSQ8_MIX" }

\* C9: ConvertToCpuIndexType(ConvertToGpuIndexType(F)) is
\* ConvertToCpuIndexType(F) for every flat-cluster or scalar-quantized
\* family F, and both conversions leave every other type as it is.
C9_DeviceMapping ==
    conv.done =>
        IF conv.from \in FlatOrQuantized
        THEN conv.cpu_of_gpu = conv.cpu
        ELSE conv.cpu = conv.from /\ conv.gpu = conv.from

\* The scalar-quantized MIX family: to GPU, and from there to CPU.
C9_MixWitness ==
    /\ conv.done
    /\ conv.from = "FAISS_IVFSQ8_MIX"
    /\ conv.gpu = "FAISS_IVFSQ8_GPU"
    /\ conv.cpu_of_gpu = "FAISS_IVFSQ8_CPU"
    /\ conv.cpu = "FAISS_IVFSQ8_CPU"

OnlyDim512 == [EmptyCfg EXCEPT !["dim"] = <<512>>]

GraphScenario ==
    /\ Tuned
    /\ call.type = "NSG_MIX"
    /\ call.size = 500
    /\ call.pre = OnlyDim512

\* min(round(dim / 128), 4) for the dimensions the configurations hold.
ReferenceScale == (64 :> 1) @@ (191 :> 1) @@ (192 :> 2) @@ (512 :> 4)

GraphValue(k, sf) ==
    CASE k = "nprobe"              -> 6 + 10 * sf
      [] k = "knng"                -> 100 + 100 * sf
      [] k = "search_length"       -> 40 + 5 * sf
      [] k = "out_degree"          -> 50 + 5 * sf
      [] k = "candidate_pool_size" -> 200 + 100 * sf

\* C10 as amended: for the graph family with 500 rows and only dim = 512,
\* AutoGenParams leaves nprobe = 46, knng = 500, search_length = 60,
\* out_degree = 70, candidate_pool_size = 600 and
\* nlist = floor(500 / 1e6 * 8192) = 4; and in general each of the five
\* graph parameters is its formula value for
\* scaleFactor = min(round(dim / 128), 4) when it was absent and is
\* unchanged when it was supplied.
C10_GraphScenario ==
    /\ GraphScenario =>
          /\ cfg["nprobe"] = <<46>>
          /\ cfg["knng"] = <<500>>
          /\ cfg["search_length"] = <<60>>
          /\ cfg["out_degree"] = <<70>>
          /\ cfg["candidate_pool_size"] = <<600>>
          /\ cfg["nlist"] = <<4>>
    /\ (Tuned /\ call.type = "NSG_MIX") =>
          \A k \in GraphKeys :
              cfg[k] = IF call.pre[k] = NoValue
                       THEN <<GraphValue(k, ReferenceScale[call.pre["dim"][1]])>>
                       ELSE call.pre[k]

C10_ScenarioWitness ==
    /\ GraphScenario
    /\ cfg["nprobe"] = <<46>>
    /\ cfg["candidate_pool_size"] = <<600>>
    /\ cfg["nlist"] = <<4>>

\* C10 as claimed: the same scenario, with nlist = 0.
C10_ScenarioNlistZero ==
    GraphScenario =>
        /\ cfg["nprobe"] = <<46>>
        /\ cfg["knng"] = <<500>>
        /\ cfg["search_length"] = <<60>>
        /\ cfg["out_degree"] = <<70>>
        /\ cfg["candidate_pool_size"] = <<600>>
        /\ cfg["nlist"] = <<0>>

=============================================================================
